---- MODULE Spec2Model ----
(***************************************************************************)
(* cligen: a generator that reads a Go source file, locates the struct     *)
(* describing a command's arguments, parses the `cli` struct tags of its   *)
(* fields and emits a pflag front end.                                     *)
(*                                                                         *)
(* The repository holds two revisions of the generator.  version = 0 is    *)
(* the revision with the inline cliTemplate and the hand-written tag       *)
(* splitter (src/unnamed/part_000); version = 1 is the revision that uses  *)
(* reflect.StructTag, knows the usage: directive and also writes go.mod    *)
(* and an implementation stub (src/unnamed/part_001).                      *)
(*                                                                         *)
(* Go strings are sequences of characters.  A character is a one-letter    *)
(* TLA+ string; the characters that need escaping are named atoms.         *)
(***************************************************************************)
EXTENDS Integers, Sequences, FiniteSets, TLC

VARIABLES
  version,   \* the revision of the generator in use
  tagIn,     \* parseFieldTag: the field and the annotation it is called with
  tagOut,    \* parseFieldTag: the descriptor returned
  src,       \* the parsed source file named by GOFILE
  fs,        \* the file system under the working directory
  call,      \* the last operation and what it returned
  ref,       \* the first front end written: its inputs and content, and whether
             \* a run with other inputs has written over it since
  run        \* the last run of a generated front end

vars == <<version, tagIn, tagOut, src, fs, call, ref, run>>

Versions == {0, 1}

(***************************************************************************)
(* Characters                                                              *)
(***************************************************************************)
SP  == " "
TAB == "TAB"
NL  == "NL"
DQ  == "DQ"     \* the double quote
BS  == "BS"     \* the backslash
E9  == "E9"     \* e-acute: one character, two bytes in UTF-8

\* len() of a Go string counts bytes
ByteLen(c) == IF c = E9 THEN 2 ELSE 1

RECURSIVE GoLen(_)
GoLen(s) == IF s = <<>> THEN 0 ELSE ByteLen(Head(s)) + GoLen(Tail(s))

\* unicode.IsSpace on the characters of the model
IsSpace(c) == c \in {SP, TAB, NL}

Min(S) == CHOOSE x \in S : \A y \in S : x <= y
Max(S) == CHOOSE x \in S : \A y \in S : x >= y

UpperLetters ==
  <<"A", "B", "C", "D", "E", "F", "G", "H", "I", "J", "K", "L", "M",
    "N", "O", "P", "Q", "R", "S", "T", "U", "V", "W", "X", "Y", "Z">>

LowerLetters ==
  <<"a", "b", "c", "d", "e", "f", "g", "h", "i", "j", "k", "l", "m",
    "n", "o", "p", "q", "r", "s", "t", "u", "v", "w", "x", "y", "z">>

\* strings.ToLower
LowerChar(c) ==
  IF \E i \in 1..26 : UpperLetters[i] = c
  THEN LowerLetters[CHOOSE i \in 1..26 : UpperLetters[i] = c]
  ELSE c

ToLower(s) == [i \in 1..Len(s) |-> LowerChar(s[i])]

UpperChar(c) ==
  IF \E i \in 1..26 : LowerLetters[i] = c
  THEN UpperLetters[CHOOSE i \in 1..26 : LowerLetters[i] = c]
  ELSE c

(***************************************************************************)
(* package strings                                                         *)
(***************************************************************************)
HasPrefix(s, p) == Len(s) >= Len(p) /\ SubSeq(s, 1, Len(p)) = p

HasSuffix(s, p) == Len(s) >= Len(p) /\ SubSeq(s, Len(s) - Len(p) + 1, Len(s)) = p

TrimPrefix(s, p) == IF HasPrefix(s, p) THEN SubSeq(s, Len(p) + 1, Len(s)) ELSE s

TrimSuffix(s, p) == IF HasSuffix(s, p) THEN SubSeq(s, 1, Len(s) - Len(p)) ELSE s

\* strings.Contains
Contains(s, sub) == \E i \in 0..(Len(s) - Len(sub)) : SubSeq(s, i + 1, i + Len(sub)) = sub

\* strings.TrimSpace
TrimSpace(s) ==
  LET keep == {i \in 1..Len(s) : ~IsSpace(s[i])}
  IN  IF keep = {} THEN <<>> ELSE SubSeq(s, Min(keep), Max(keep))

\* strings.Trim(s, cutset) for a one-character cutset
TrimChar(s, c) ==
  LET keep == {i \in 1..Len(s) : s[i] # c}
  IN  IF keep = {} THEN <<>> ELSE SubSeq(s, Min(keep), Max(keep))

\* strings.Split(s, sep) for a one-character separator: Split("", sep) is [""]
RECURSIVE Split(_, _)
Split(s, sep) ==
  LET at == {i \in 1..Len(s) : s[i] = sep}
  IN  IF at = {} THEN <<s>>
      ELSE <<SubSeq(s, 1, Min(at) - 1)>> \o Split(SubSeq(s, Min(at) + 1, Len(s)), sep)

\* strings.Join
RECURSIVE Join(_, _)
Join(parts, sep) ==
  IF parts = <<>> THEN <<>>
  ELSE IF Len(parts) = 1 THEN parts[1]
  ELSE parts[1] \o <<sep>> \o Join(Tail(parts), sep)

\* strings.Fields: the maximal runs of non-space characters
RECURSIVE Fields(_)
Fields(s) ==
  LET word == {i \in 1..Len(s) : ~IsSpace(s[i])}
  IN  IF word = {} THEN <<>>
      ELSE LET b    == Min(word)
               gap  == {i \in b..Len(s) : IsSpace(s[i])}
               e    == IF gap = {} THEN Len(s) ELSE Min(gap) - 1
           IN  <<SubSeq(s, b, e)>> \o Fields(SubSeq(s, e + 1, Len(s)))

(***************************************************************************)
(* Literals of the generator                                               *)
(***************************************************************************)
s_cli      == <<"c", "l", "i">>
s_default  == <<"d", "e", "f", "a", "u", "l", "t", ":">>
s_required == <<"r", "e", "q", "u", "i", "r", "e", "d">>
s_options  == <<"o", "p", "t", "i", "o", "n", "s", ":">>
s_usage    == <<"u", "s", "a", "g", "e", ":">>
s_args     == <<"a", "r", "g", "s">>

(***************************************************************************)
(* extractTag, revision 0: whitespace-separated key:"value" parts          *)
(***************************************************************************)
\* one pass of the loop body: the map after `part`
tagMapPut(m, part, key) ==
  IF Contains(part, <<":">>)
  THEN LET c        == Min({i \in 1..Len(part) : part[i] = ":"})
           tagKey   == SubSeq(part, 1, c - 1)
           tagValue == TrimChar(SubSeq(part, c + 1, Len(part)), DQ)
       IN  IF tagKey = key THEN tagValue ELSE m
  ELSE m

RECURSIVE tagMapFold(_, _, _)
tagMapFold(m, parts, key) ==
  IF parts = <<>> THEN m
  ELSE tagMapFold(tagMapPut(m, Head(parts), key), Tail(parts), key)

\* tagMap[key]: the value of the last part with that key, "" when there is none
extractTagFields(tag, key) == tagMapFold(<<>>, Fields(tag), key)

(***************************************************************************)
(* extractTag, revision 1: reflect.StructTag(tag).Get(key)                 *)
(***************************************************************************)
\* strconv.Unquote of the text between the quotes; <<FALSE>> on a syntax error.
\* Only the escapes \\ \" \t \n occur in the model's alphabet.
RECURSIVE Unescape(_)
Unescape(s) ==
  IF s = <<>> THEN <<TRUE, <<>>>>
  ELSE IF Head(s) = NL THEN <<FALSE>>
  ELSE IF Head(s) # BS
       THEN LET r == Unescape(Tail(s))
            IN  IF r[1] THEN <<TRUE, <<Head(s)>> \o r[2]>> ELSE <<FALSE>>
  ELSE IF Len(s) < 2 THEN <<FALSE>>
  ELSE LET e == s[2]
           c == CASE e = BS -> BS
                  [] e = DQ -> DQ
                  [] e = "t" -> TAB
                  [] e = "n" -> NL
                  [] OTHER -> "invalid"
           r == Unescape(SubSeq(s, 3, Len(s)))
       IN  IF c = "invalid" \/ ~r[1] THEN <<FALSE>> ELSE <<TRUE, <<c>> \o r[2]>>

\* index of the closing quote of the quoted string starting at q[1], 0 if none
RECURSIVE ScanQuoted(_, _)
ScanQuoted(q, i) ==
  IF i > Len(q) THEN 0
  ELSE IF q[i] = DQ THEN i
  ELSE IF q[i] = BS THEN ScanQuoted(q, i + 2)
  ELSE ScanQuoted(q, i + 1)

RECURSIVE Lookup(_, _)
Lookup(tag, key) ==
  LET nonsp == {i \in 1..Len(tag) : tag[i] # SP}
  IN  IF nonsp = {} THEN <<>>
      ELSE
        LET t     == SubSeq(tag, Min(nonsp), Len(tag))
            stop  == {i \in 1..Len(t) : IsSpace(t[i]) \/ t[i] = ":" \/ t[i] = DQ}
            n     == IF stop = {} THEN Len(t) ELSE Min(stop) - 1
        IN  IF n = 0 \/ n + 2 > Len(t) THEN <<>>
            ELSE IF t[n + 1] # ":" \/ t[n + 2] # DQ THEN <<>>
            ELSE
              LET name == SubSeq(t, 1, n)
                  q    == SubSeq(t, n + 2, Len(t))
                  j    == ScanQuoted(q, 2)
              IN  IF j = 0 THEN <<>>
                  ELSE IF name = key
                       THEN LET u == Unescape(SubSeq(q, 2, j - 1))
                            IN  IF u[1] THEN u[2] ELSE <<>>
                       ELSE Lookup(SubSeq(q, j + 1, Len(q)), key)

extractTagReflect(tag, key) == Lookup(tag, key)

extractTag(v, tag, key) ==
  IF v = 0 THEN extractTagFields(tag, key) ELSE extractTagReflect(tag, key)

(***************************************************************************)
(* FieldInfo and parseFieldTag                                             *)
(***************************************************************************)
\* FieldInfo with the field name used as the flag name as written
FieldInfo_noLower(fieldName, fieldType) ==
  [Name |-> fieldName, Type |-> fieldType, CLIName |-> fieldName,
   ShortFlag |-> <<>>, DefaultValue |-> <<>>, Required |-> FALSE,
   Options |-> <<>>, Help |-> <<>>, Usage |-> <<>>]

\* FieldInfo{Name, Type, CLIName: strings.ToLower(fieldName)}; a nil slice and
\* an empty string are the empty sequence.  Revision 0 has no Usage member: it
\* stays empty there.
FieldInfo(fieldName, fieldType) ==
  [Name |-> fieldName, Type |-> fieldType, CLIName |-> ToLower(fieldName),
   ShortFlag |-> <<>>, DefaultValue |-> <<>>, Required |-> FALSE,
   Options |-> <<>>, Help |-> <<>>, Usage |-> <<>>]

\* if len(parts) > 0 && parts[0] != "" { field.CLIName = parts[0] }
setCLIName(field, parts) ==
  IF Len(parts) > 0 /\ parts[1] # <<>> THEN [field EXCEPT !.CLIName = parts[1]] ELSE field

\* classifyPart trimming the default value once more
classifyPart_trimDefault(v, field, raw) ==
  LET part == TrimSpace(raw)
  IN  IF GoLen(part) = 1 THEN [field EXCEPT !.ShortFlag = part]
      ELSE IF HasPrefix(part, s_default)
           THEN [field EXCEPT !.DefaultValue = TrimSpace(TrimPrefix(part, s_default))]
      ELSE IF part = s_required THEN [field EXCEPT !.Required = TRUE]
      ELSE IF HasPrefix(part, s_options)
           THEN [field EXCEPT !.Options = Split(TrimPrefix(part, s_options), "|")]
      ELSE IF v = 1 /\ HasPrefix(part, s_usage)
           THEN [field EXCEPT !.Usage = TrimPrefix(part, s_usage)]
      ELSE field

\* classifyPart keeping the first short flag
classifyPart_firstShort(v, field, raw) ==
  LET part == TrimSpace(raw)
  IN  IF GoLen(part) = 1
      THEN IF field.ShortFlag = <<>> THEN [field EXCEPT !.ShortFlag = part] ELSE field
      ELSE IF HasPrefix(part, s_default)
           THEN [field EXCEPT !.DefaultValue = TrimPrefix(part, s_default)]
      ELSE IF part = s_required THEN [field EXCEPT !.Required = TRUE]
      ELSE IF HasPrefix(part, s_options)
           THEN [field EXCEPT !.Options = Split(TrimPrefix(part, s_options), "|")]
      ELSE IF v = 1 /\ HasPrefix(part, s_usage)
           THEN [field EXCEPT !.Usage = TrimPrefix(part, s_usage)]
      ELSE field

\* classifyPart matching the default directive without its colon
classifyPart_looseDefault(v, field, raw) ==
  LET part == TrimSpace(raw)
  IN  IF GoLen(part) = 1 THEN [field EXCEPT !.ShortFlag = part]
      ELSE IF HasPrefix(part, <<"d", "e", "f", "a", "u", "l", "t">>)
           THEN [field EXCEPT !.DefaultValue = TrimPrefix(part, s_default)]
      ELSE IF part = s_required THEN [field EXCEPT !.Required = TRUE]
      ELSE IF HasPrefix(part, s_options)
           THEN [field EXCEPT !.Options = Split(TrimPrefix(part, s_options), "|")]
      ELSE IF v = 1 /\ HasPrefix(part, s_usage)
           THEN [field EXCEPT !.Usage = TrimPrefix(part, s_usage)]
      ELSE field

\* the body of the loop over parts[1:], for one part
classifyPart(v, field, raw) ==
  LET part == TrimSpace(raw)
  IN  IF GoLen(part) = 1 THEN [field EXCEPT !.ShortFlag = part]
      ELSE IF HasPrefix(part, s_default)
           THEN [field EXCEPT !.DefaultValue = TrimPrefix(part, s_default)]
      ELSE IF part = s_required THEN [field EXCEPT !.Required = TRUE]
      ELSE IF HasPrefix(part, s_options)
           THEN [field EXCEPT !.Options = Split(TrimPrefix(part, s_options), "|")]
      ELSE IF v = 1 /\ HasPrefix(part, s_usage)
           THEN [field EXCEPT !.Usage = TrimPrefix(part, s_usage)]
      ELSE field

\* for i := 1; i < len(parts); i++ (i is the 1-based index here)
RECURSIVE classifyParts(_, _, _, _)
classifyParts(v, field, parts, i) ==
  IF i > Len(parts) THEN field
  ELSE classifyParts(v, classifyPart(v, field, parts[i]), parts, i + 1)

parseFieldTag(v, fieldName, fieldType, tag) ==
  LET field  == FieldInfo(fieldName, fieldType)
      cliTag == extractTag(v, tag, s_cli)
  IN  IF tag = <<>> THEN field
      ELSE IF cliTag = <<>> THEN field
      ELSE LET parts == Split(cliTag, ",")
           IN  classifyParts(v, setCLIName(field, parts), parts, 2)

(***************************************************************************)
(* Annotations given to parseFieldTag.  An annotation is written as        *)
(*   [json:"x" ]cli:"tok0,tok1,..."                                        *)
(* from a list of written tokens; it may also be empty or lack the cli key.*)
(***************************************************************************)
MaxDirectives == 2

NameToks == { <<>>, <<"p", "o">> }

DirToks ==
  { <<"p">>,
    <<SP, "e", SP>>,
    <<E9>>,
    <<"d", "e", "f", "a", "u", "l", "t", ":", "8">>,
    <<SP, "d", "e", "f", "a", "u", "l", "t", ":", SP, "x", SP>>,
    <<"d", "e", "f", "a", "u", "l", "t", ":", BS, BS>>,
    <<"d", "e", "f", "a", "u", "l", "t">>,
    s_required,
    <<"o", "p", "t", "i", "o", "n", "s", ":", "a", "|", "b">>,
    <<"u", "s", "a", "g", "e", ":", "h", "i">>,
    <<"z", "z">>,
    <<>>,
    <<BS, "p">> }

RECURSIVE TokLists(_)
TokLists(n) ==
  IF n = 0 THEN { <<>> }
  ELSE LET shorter == TokLists(n - 1)
       IN  shorter \cup { Append(l, t) : l \in {x \in shorter : Len(x) = n - 1}, t \in DirToks }

s_json == <<"j", "s", "o", "n", ":", DQ, "x", DQ>>

BuildTag(kind, other, toks) ==
  LET pre == IF other THEN s_json \o <<SP>> ELSE <<>>
  IN  CASE kind = "empty" -> <<>>
        [] kind = "nocli" -> s_json
        [] kind = "cli"   -> pre \o s_cli \o <<":", DQ>> \o Join(toks, ",") \o <<DQ>>

TagFields == { [name |-> <<"P", "o", "r", "t">>, type |-> "int"],
               [name |-> <<"E", "n", "v">>, type |-> "[]string"] }

TagInputs ==
  { [kind |-> "empty", other |-> FALSE, toks |-> <<>>],
    [kind |-> "nocli", other |-> TRUE, toks |-> <<>>] }
  \cup { [kind |-> "cli", other |-> o, toks |-> <<>>] : o \in BOOLEAN }
  \cup { [kind |-> "cli", other |-> o, toks |-> <<n>> \o d] :
           o \in BOOLEAN, n \in NameToks, d \in TokLists(MaxDirectives) }

TagOf(in) == BuildTag(in.kind, in.other, in.toks)

(***************************************************************************)
(* The parsed source file (go/ast)                                         *)
(*   file  : [ok, decls]; ok = FALSE when parser.ParseFile fails           *)
(*   decl  : [tok |-> "type", specs], [tok |-> "var"], or                  *)
(*           [tok |-> "func", body] with the declarations in its body      *)
(*   spec  : [Name, Type]                                                  *)
(*   expr  : [kind |-> "Ident", name] | [kind |-> "Array", elt] |          *)
(*           [kind |-> "Star", x] | [kind |-> "Struct", fields] |          *)
(*           [kind |-> "Other"]                                            *)
(*   field : [Names, Type, Tag]; Tag is the tag literal with its           *)
(*           backquotes, empty when the field has none                     *)
(***************************************************************************)
BT == "BT"      \* the backquote

\* typeSpec.Type.(*ast.StructType) and the naming pattern
qualifies(spec, command) ==
  /\ spec.Type.kind = "Struct"
  /\ Contains(ToLower(spec.Name), ToLower(command))
  /\ Contains(ToLower(spec.Name), s_args)

\* the loop over genDecl.Specs: the first qualifying spec, <<>> when none
RECURSIVE firstQualifying(_, _)
firstQualifying(specs, command) ==
  IF specs = <<>> THEN <<>>
  ELSE IF qualifies(Head(specs), command) THEN <<Head(specs)>>
  ELSE firstQualifying(Tail(specs), command)

\* ast.Inspect over the declarations in source order.  The callback returns
\* false on a match, which keeps Inspect out of the children of that GenDecl
\* only: the walk goes on with the declarations that follow, and a later
\* match assigns targetStruct and structName again.
RECURSIVE inspectDecls(_, _, _)
inspectDecls(decls, command, target) ==
  IF decls = <<>> THEN target
  ELSE LET d == Head(decls)
           t == IF d.tok = "type"
                THEN LET m == firstQualifying(d.specs, command)
                     IN  IF m # <<>> THEN m ELSE target
                ELSE IF d.tok = "func" THEN inspectDecls(d.body, command, target)
                ELSE target
       IN  inspectDecls(Tail(decls), command, t)

RECURSIVE getTypeString(_)
getTypeString(expr) ==
  CASE expr.kind = "Ident" -> expr.name
    [] expr.kind = "Array" -> "[]" \o getTypeString(expr.elt)
    [] expr.kind = "Star"  -> "*" \o getTypeString(expr.x)
    [] OTHER               -> "interface{}"

\* one pass of the loop of parseStructFields: the descriptors after `field`
fieldStep(v, fields, field) ==
  IF Len(field.Names) = 0 THEN fields
  ELSE LET fieldName == field.Names[1]
           fieldType == getTypeString(field.Type)
           tag       == IF field.Tag # <<>> THEN TrimChar(field.Tag, BT) ELSE <<>>
       IN  Append(fields, parseFieldTag(v, fieldName, fieldType, tag))

RECURSIVE fieldLoop(_, _, _)
fieldLoop(v, fields, list) ==
  IF list = <<>> THEN fields
  ELSE fieldLoop(v, fieldStep(v, fields, Head(list)), Tail(list))

parseStructFields(v, structType) == fieldLoop(v, <<>>, structType.fields)

(***************************************************************************)
(* The front end the emitter writes: cliTemplate executed on                *)
(* {Command, Help, StructName, Fields}.  The text is kept as the parts     *)
(* that vary with the data, in template order; the text between them is    *)
(* constant.                                                               *)
(***************************************************************************)
\* "title": strings.Title in revision 0, cases.Title(language.English) in
\* revision 1 (which also lowercases the rest of the word); commands are
\* single words
title(v, s) ==
  IF s = <<>> THEN s
  ELSE IF v = 0 THEN <<UpperChar(s[1])>> \o Tail(s)
  ELSE <<UpperChar(s[1])>> \o ToLower(Tail(s))

\* printf "%q"
RECURSIVE quoteBody(_)
quoteBody(s) ==
  IF s = <<>> THEN <<>>
  ELSE LET c == Head(s)
           e == CASE c = BS  -> <<BS, BS>>
                  [] c = DQ  -> <<BS, DQ>>
                  [] c = TAB -> <<BS, "t">>
                  [] c = NL  -> <<BS, "n">>
                  [] OTHER   -> <<c>>
       IN  e \o quoteBody(Tail(s))

printfQ(s) == <<DQ>> \o quoteBody(s) \o <<DQ>>

SupportedTypes == {"string", "int", "bool", "[]string"}

s_zero  == <<"0">>
s_false == <<"f", "a", "l", "s", "e">>
s_nil   == <<"n", "i", "l">>
\* what {{"{{.DefaultValue}}"}} prints: the quoted text itself
s_sliceDefault ==
  <<"[", "]", "s", "t", "r", "i", "n", "g", "{", "{", ".", "D", "e", "f", "a", "u", "l", "t",
    "V", "a", "l", "u", "e", "}", "}">>

\* $help of the Define flags block
helpText(f) ==
  LET h1 == IF f.Required
            THEN f.CLIName \o <<SP, "(", "r", "e", "q", "u", "i", "r", "e", "d", ")">>
            ELSE f.CLIName
  IN  IF f.Options # <<>> THEN h1 \o <<SP, "[">> \o Join(f.Options, "|") \o <<"]">> ELSE h1

\* the registration call of one field; <<>> for a type with no branch
flagLine(f) ==
  LET reg(fn, def) ==
        <<[fn |-> fn, Name |-> f.Name, CLIName |-> f.CLIName, ShortFlag |-> f.ShortFlag,
           def |-> def, help |-> helpText(f)]>>
  IN  CASE f.Type = "string"   -> reg("StringVarP", <<DQ>> \o f.DefaultValue \o <<DQ>>)
        [] f.Type = "int"      -> reg("IntVarP",
                                      IF f.DefaultValue # <<>> THEN f.DefaultValue ELSE s_zero)
        [] f.Type = "bool"     -> reg("BoolVarP",
                                      IF f.DefaultValue # <<>> THEN f.DefaultValue ELSE s_false)
        [] f.Type = "[]string" -> reg("StringSliceVarP",
                                      IF f.DefaultValue # <<>> THEN s_sliceDefault ELSE s_nil)
        [] OTHER               -> <<>>

\* the zero literal the required block compares with
zeroLiteral(type) ==
  CASE type = "string" -> <<DQ, DQ>>
    [] type = "int"    -> s_zero
    [] type = "bool"   -> s_false
    [] OTHER           -> s_nil

\* the required block emitted only for fields without a declared default
requiredBlock_unlessDefault(f) ==
  IF f.Required /\ f.DefaultValue = <<>>
  THEN <<[Name |-> f.Name, Type |-> f.Type, zero |-> zeroLiteral(f.Type),
          CLIName |-> f.CLIName]>>
  ELSE <<>>

\* {{range .Fields}}{{if .Required}} ... {{end}}{{end}}
requiredBlock(f) ==
  IF f.Required
  THEN <<[Name |-> f.Name, Type |-> f.Type, zero |-> zeroLiteral(f.Type),
          CLIName |-> f.CLIName]>>
  ELSE <<>>

\* {{range .Fields}}{{if .Options}}if cmd.X != "" { ... }{{end}}{{end}}
optionsBlock(f) ==
  IF f.Options # <<>>
  THEN <<[Name |-> f.Name, Type |-> f.Type, validOptions |-> f.Options,
          CLIName |-> f.CLIName]>>
  ELSE <<>>

RECURSIVE rangeFields(_, _)
rangeFields(Block(_), fields) ==
  IF fields = <<>> THEN <<>> ELSE Block(Head(fields)) \o rangeFields(Block, Tail(fields))

cliTemplate(v, data) ==
  [title    |-> title(v, data.Command),
   command  |-> data.Command,
   members  |-> [i \in 1..Len(data.Fields) |->
                   [Name |-> data.Fields[i].Name, Type |-> data.Fields[i].Type]],
   flags    |-> rangeFields(flagLine, data.Fields),
   required |-> rangeFields(requiredBlock, data.Fields),
   options  |-> rangeFields(optionsBlock, data.Fields),
   help     |-> printfQ(data.Help)]

(***************************************************************************)
(* The file system.  A path is a string; fs maps the paths that exist to   *)
(* a node: a directory, or a file whose content is the sequence of chunks  *)
(* written to it since it was last truncated.                              *)
(***************************************************************************)
s_slashMainGo == <<"/", "m", "a", "i", "n", ".", "g", "o">>
s_goMod       == <<"/", "g", "o", ".", "m", "o", "d">>
s_implGo      == <<"_", "i", "m", "p", "l", ".", "g", "o">>
s_cmdDir      == <<"c", "m", "d", "/">>

Commands == { <<"r", "u", "n">>, <<"U", "p">> }
\* the help string:  say "x"
Helps    == { <<"s", "a", "y", SP, DQ, "x", DQ>> }
\* the output argument of main: <<>> when none is given
OutArgs  == { <<>>, <<"g", "e", "n", ".", "g", "o">> }

\* outputFile = fmt.Sprintf("cmd/%s/main.go", command)
defaultOutput(command) == s_cmdDir \o command \o s_slashMainGo

outputFileOf(command, outArg) == IF outArg = <<>> THEN defaultOutput(command) ELSE outArg

\* strings.TrimSuffix(g.OutputFile, "/main.go")
outDir(outputFile) == TrimSuffix(outputFile, s_slashMainGo)

goModPath(outputFile) == outDir(outputFile) \o s_goMod

implPath(outputFile, command) == outDir(outputFile) \o <<"/">> \o command \o s_implGo

\* the directories above a path
Ancestors(path) == { SubSeq(path, 1, i - 1) : i \in {j \in 2..Len(path) : path[j] = "/"} }

Absent   == [kind |-> "none", content |-> <<>>]
Dir      == [kind |-> "dir", content |-> <<>>]
File(cs) == [kind |-> "file", content |-> cs]

\* nothing exists yet
EmptyFS == [q \in {} |-> Absent]

\* the node at a path
nodeAt(f, path) == IF path \in DOMAIN f THEN f[path] ELSE Absent

\* the file system with the node at path replaced
putNode(f, path, n) == [q \in DOMAIN f \cup {path} |-> IF q = path THEN n ELSE f[q]]

\* os.MkdirAll: fails when the path or a directory above it is a file
osMkdirAll(f, path) ==
  LET chain == Ancestors(path) \cup {path}
  IN  IF path = <<>> \/ \E a \in chain : nodeAt(f, a).kind = "file"
      THEN [ok |-> FALSE, fs |-> f]
      ELSE [ok |-> TRUE,
            fs |-> [q \in DOMAIN f \cup chain |-> IF q \in chain THEN Dir ELSE f[q]]]

\* the path can be opened for writing: its directory exists, it is no directory
writable(f, path) ==
  /\ path # <<>>
  /\ \A a \in Ancestors(path) : nodeAt(f, a).kind = "dir"
  /\ nodeAt(f, path).kind # "dir"

\* os.Create without O_TRUNC: an existing file keeps its content
osCreate_keep(f, path) ==
  IF writable(f, path)
  THEN [ok |-> TRUE, fs |-> putNode(f, path, File(nodeAt(f, path).content))]
  ELSE [ok |-> FALSE, fs |-> f]

\* os.Create: the file is created or truncated
osCreate(f, path) ==
  IF writable(f, path)
  THEN [ok |-> TRUE, fs |-> putNode(f, path, File(<<>>))]
  ELSE [ok |-> FALSE, fs |-> f]

\* tmpl.Execute(file, data) and Write: the chunk goes to the end of the file
writeChunk(f, path, chunk) == putNode(f, path, File(nodeAt(f, path).content \o <<chunk>>))

\* os.WriteFile
osWriteFile(f, path, chunk) ==
  LET c == osCreate(f, path)
  IN  IF c.ok THEN [ok |-> TRUE, fs |-> writeChunk(c.fs, path, chunk)] ELSE c

\* os.Stat(path) returns no error
osStatOk(f, path) == nodeAt(f, path).kind # "none"

(***************************************************************************)
(* The emitter                                                             *)
(***************************************************************************)
cliChunk(v, g, structName, fields) ==
  [kind |-> "cli",
   text |-> cliTemplate(v, [Command |-> g.Command, Help |-> g.Help,
                            StructName |-> structName, Fields |-> fields])]

\* go.mod: "module <command>" and the fixed go and require lines
goModChunk(g) == [kind |-> "gomod", text |-> g.Command]

\* the stub template is executed on {Command, StructName, Fields}
implChunk(g, structName, fields) ==
  [kind |-> "impl",
   text |-> [Command |-> g.Command, StructName |-> structName, Fields |-> fields]]

\* what a developer puts in the stub
UserChunk == [kind |-> "user", text |-> <<"u", "s", "e", "r">>]

generateGoMod(g, f) ==
  LET w == osWriteFile(f, goModPath(g.OutputFile), goModChunk(g))
  IN  [fs |-> w.fs, err |-> IF w.ok THEN "" ELSE "gomod"]

\* the stub generator without the existence check
generateImplementationStub_overwrite(g, structName, fields, f) ==
  LET path == implPath(g.OutputFile, g.Command)
      c    == osCreate(f, path)
  IN  IF ~c.ok THEN [fs |-> f, err |-> "stub"]
      ELSE [fs |-> writeChunk(c.fs, path, implChunk(g, structName, fields)), err |-> ""]

generateImplementationStub(g, structName, fields, f) ==
  LET path == implPath(g.OutputFile, g.Command)
      c    == osCreate(f, path)
  IN  IF osStatOk(f, path) THEN [fs |-> f, err |-> ""]
      ELSE IF ~c.ok THEN [fs |-> f, err |-> "stub"]
      ELSE [fs |-> writeChunk(c.fs, path, implChunk(g, structName, fields)), err |-> ""]

\* revision 0: create the output file and execute the template
generateCLICode0(g, structName, fields, f) ==
  LET c == osCreate(f, g.OutputFile)
  IN  IF ~c.ok THEN [fs |-> f, err |-> "create"]
      ELSE [fs |-> writeChunk(c.fs, g.OutputFile, cliChunk(0, g, structName, fields)),
            err |-> ""]

\* revision 1: MkdirAll, create and execute, then go.mod and the stub
generateCLICode1(g, structName, fields, f) ==
  LET m == osMkdirAll(f, outDir(g.OutputFile))
      c == osCreate(m.fs, g.OutputFile)
      w == writeChunk(c.fs, g.OutputFile, cliChunk(1, g, structName, fields))
      gm == generateGoMod(g, w)
  IN  IF ~m.ok THEN [fs |-> f, err |-> "mkdir"]
      ELSE IF ~c.ok THEN [fs |-> m.fs, err |-> "create"]
      ELSE IF gm.err # "" THEN gm
      ELSE generateImplementationStub(g, structName, fields, gm.fs)

generateCLICode(v, g, structName, fields, f) ==
  IF v = 0 THEN generateCLICode0(g, structName, fields, f)
  ELSE generateCLICode1(g, structName, fields, f)

\* Generate with the output directory made before the source is read
Generate_mkdirFirst(v, g, file, f) ==
  LET made   == osMkdirAll(f, outDir(g.OutputFile)).fs
      target == inspectDecls(file.decls, g.Command, <<>>)
      fields == parseStructFields(v, target[1].Type)
      out    == generateCLICode(v, g, target[1].Name, fields, made)
  IN  IF ~file.ok
      THEN [fs |-> made, err |-> "parse", structName |-> <<>>, fields |-> <<>>]
      ELSE IF target = <<>>
      THEN [fs |-> made, err |-> "notfound", structName |-> <<>>, fields |-> <<>>]
      ELSE [fs |-> out.fs, err |-> out.err, structName |-> target[1].Name,
            fields |-> fields]

\* what Generate returns: the file system it leaves, the error, and the
\* declaration and descriptors it worked with
Generate(v, g, file, f) ==
  LET target == inspectDecls(file.decls, g.Command, <<>>)
      fields == parseStructFields(v, target[1].Type)
      out    == generateCLICode(v, g, target[1].Name, fields, f)
  IN  IF ~file.ok
      THEN [fs |-> f, err |-> "parse", structName |-> <<>>, fields |-> <<>>]
      ELSE IF target = <<>>
      THEN [fs |-> f, err |-> "notfound", structName |-> <<>>, fields |-> <<>>]
      ELSE [fs |-> out.fs, err |-> out.err, structName |-> target[1].Name,
            fields |-> fields]

(***************************************************************************)
(* Source files                                                            *)
(***************************************************************************)
Ident(n) == [kind |-> "Ident", name |-> n]
Struct(fields) == [kind |-> "Struct", fields |-> fields]
Field(names, type, tag) == [Names |-> names, Type |-> type, Tag |-> tag]
TypeDecl(specs) == [tok |-> "type", specs |-> specs, body |-> <<>>]

\* type RunArgs struct { Port int `cli:"port,p,default:80"` }
D_RunArgs ==
  TypeDecl(<<[Name |-> <<"R", "u", "n", "A", "r", "g", "s">>,
              Type |-> Struct(<<Field(<<<<"P", "o", "r", "t">>>>, Ident("int"), <<BT, "c", "l", "i", ":", DQ, "p", "o", "r", "t", ",", "p", ",", "d", "e", "f", "a", "u", "l", "t", ":", "8", "0", DQ, BT>>)>>)]>>)

\* type RunCLIArgs struct {
\*     Base
\*     Host, Alias string `cli:"host,required"`
\*     Tags        []string
\* }
D_RunCLIArgs ==
  TypeDecl(<<[Name |-> <<"R", "u", "n", "C", "L", "I", "A", "r", "g", "s">>,
              Type |-> Struct(<<Field(<<>>, Ident("Base"), <<>>),
                                Field(<<<<"H", "o", "s", "t">>, <<"A", "l", "i", "a", "s">>>>, Ident("string"),
                                      <<BT, "c", "l", "i", ":", DQ, "h", "o", "s", "t", ",", "r", "e", "q", "u", "i", "r", "e", "d", DQ, BT>>),
                                Field(<<<<"T", "a", "g", "s">>>>, [kind |-> "Array", elt |-> Ident("string")],
                                      <<>>)>>)]>>)

\* type (
\*     Setup   struct { Up bool }
\*     upARGS  struct { V *int `cli:"v"` }
\*     UpArgs2 struct { W map[string]int }
\* )
D_Group ==
  TypeDecl(<<[Name |-> <<"S", "e", "t", "u", "p">>,
              Type |-> Struct(<<Field(<<<<"U", "p">>>>, Ident("bool"), <<>>)>>)],
             [Name |-> <<"u", "p", "A", "R", "G", "S">>,
              Type |-> Struct(<<Field(<<<<"V">>>>, [kind |-> "Star", x |-> Ident("int")],
                                      <<BT, "c", "l", "i", ":", DQ, "v", DQ, BT>>)>>)],
             [Name |-> <<"U", "p", "A", "r", "g", "s", "2">>,
              Type |-> Struct(<<Field(<<<<"W">>>>, [kind |-> "Other"], <<>>)>>)]>>)

\* var x int
D_Var == [tok |-> "var", specs |-> <<>>, body |-> <<>>]

\* type RunArgsID int
D_Alias == TypeDecl(<<[Name |-> <<"R", "u", "n", "A", "r", "g", "s", "I", "D">>, Type |-> Ident("int")]>>)

\* func f() {
\*     var x int
\*     type RunArgsID int
\*     type runargsLocal struct { Z bool }
\* }
D_Func ==
  [tok |-> "func", specs |-> <<>>,
   body |-> <<D_Var, D_Alias,
              TypeDecl(<<[Name |-> <<"r", "u", "n", "a", "r", "g", "s", "L", "o", "c", "a", "l">>,
                          Type |-> Struct(<<Field(<<<<"Z">>>>, Ident("bool"), <<>>)>>)]>>)>>]

DeclPool == {D_RunArgs, D_RunCLIArgs, D_Group, D_Func}

MaxDecls == 2

\* the sequences of up to n different declarations
RECURSIVE DeclLists(_)
DeclLists(n) ==
  IF n = 0 THEN { <<>> }
  ELSE LET shorter == DeclLists(n - 1)
       IN  shorter \cup
           { Append(l, d) : l \in {x \in shorter : Len(x) = n - 1},
                            d \in DeclPool }

Distinct(l) == \A i, j \in 1..Len(l) : i # j => l[i] # l[j]

ParseFailure == [ok |-> FALSE, decls |-> <<>>]

Sources ==
  {ParseFailure} \cup
  { [ok |-> TRUE, decls |-> l] : l \in {x \in DeclLists(MaxDecls) : x # <<>> /\ Distinct(x)} }

(***************************************************************************)
(* main: one run of the generator (Spec)                                   *)
(***************************************************************************)
NoCall ==
  [op |-> "none", command |-> <<>>, help |-> <<>>, out |-> <<>>, err |-> "",
   structName |-> <<>>, fields |-> <<>>, exit |-> 0]

NoRef ==
  [set |-> FALSE, command |-> <<>>, help |-> <<>>, structName |-> <<>>, fields |-> <<>>,
   out |-> <<>>, content |-> <<>>, gomod |-> <<>>, over |-> FALSE]

\* no run of a generated front end
NoRun ==
  [ran |-> FALSE, help |-> FALSE, parsed |-> FALSE, args |-> <<>>, values |-> <<>>,
   errKind |-> "", errFlag |-> <<>>, errAllowed |-> <<>>, usage |-> FALSE,
   executed |-> FALSE, exit |-> 0]

GenIdle == src = ParseFailure /\ fs = EmptyFS /\ call = NoCall /\ ref = NoRef

\* the run got as far as writing the front end
wrote(err) == err \in {"", "gomod", "stub"}

\* the generator called as `cligen <command> "<help>" [output]` or with
\* --command= --help= --output=; log.Fatalf exits with status 1
Main(command, help, outArg) ==
  LET g == [SourceFile |-> "GOFILE", Command |-> command, Help |-> help,
            OutputFile |-> outputFileOf(command, outArg)]
  IN  \E r \in {Generate(version, g, src, fs)} :
      /\ fs' = r.fs
      /\ call' = [op |-> "main", command |-> command, help |-> help, out |-> g.OutputFile,
                  err |-> r.err, structName |-> r.structName, fields |-> r.fields,
                  exit |-> IF r.err = "" THEN 0 ELSE 1]
      /\ ref' = IF ~ref.set /\ wrote(r.err)
                THEN [set |-> TRUE, command |-> command, help |-> help,
                      structName |-> r.structName, fields |-> r.fields,
                      out |-> g.OutputFile,
                      content |-> nodeAt(r.fs, g.OutputFile).content,
                      gomod |-> IF version = 1 /\ r.err # "gomod"
                                THEN nodeAt(r.fs, goModPath(g.OutputFile)).content ELSE <<>>,
                      over |-> FALSE]
                ELSE IF ref.set /\ wrote(r.err) /\ g.OutputFile = ref.out
                        /\ <<command, help, r.structName, r.fields>>
                             # <<ref.command, ref.help, ref.structName, ref.fields>>
                THEN [ref EXCEPT !.over = TRUE]
                ELSE ref
      /\ UNCHANGED <<version, tagIn, tagOut, src, run>>

\* the developer fills in an implementation stub that exists
UserEditsStub(command, outArg) ==
  LET path == implPath(outputFileOf(command, outArg), command)
  IN  /\ nodeAt(fs, path).kind = "file"
      /\ nodeAt(fs, path).content # <<UserChunk>>
      /\ fs' = putNode(fs, path, File(<<UserChunk>>))
      /\ call' = [NoCall EXCEPT !.op = "edit"]
      /\ UNCHANGED <<version, tagIn, tagOut, src, ref, run>>

\* the field a developer adds to a struct:  Quiet bool
F_Quiet == Field(<<<<"Q", "u", "i", "e", "t">>>>, Ident("bool"), <<>>)

\* a declaration with the field added to each of its struct types
withQuiet(d) ==
  [d EXCEPT !.specs =
     [i \in 1..Len(d.specs) |->
        IF d.specs[i].Type.kind = "Struct"
        THEN [d.specs[i] EXCEPT !.Type = Struct(Append(d.specs[i].Type.fields, F_Quiet))]
        ELSE d.specs[i]]]

\* the developer adds a field to the structs of the source file between runs
UserEditsSource ==
  /\ call.op # "none"
  /\ src \in Sources /\ src.ok
  /\ src' = [src EXCEPT !.decls = [i \in 1..Len(src.decls) |-> withQuiet(src.decls[i])]]
  /\ src' # src
  /\ call' = [NoCall EXCEPT !.op = "edit"]
  /\ UNCHANGED <<version, tagIn, tagOut, fs, ref, run>>

\* the developer leaves the source file in a state that does not parse
UserBreaksSource ==
  /\ call.op # "none"
  /\ src.ok
  /\ src' = ParseFailure
  /\ call' = [NoCall EXCEPT !.op = "edit"]
  /\ UNCHANGED <<version, tagIn, tagOut, fs, ref, run>>

\* no call of parseFieldTag in progress
NoTag == [name |-> <<>>, type |-> "", kind |-> "none", other |-> FALSE, toks |-> <<>>]

TagIdle == tagIn = NoTag /\ tagOut = <<>>

InitTag ==
  /\ version \in Versions
  /\ \E f \in TagFields, t \in TagInputs :
       tagIn = [name |-> f.name, type |-> f.type, kind |-> t.kind,
                other |-> t.other, toks |-> t.toks]
  /\ tagOut = <<>>
  /\ GenIdle
  /\ run = NoRun

\* one call of parseFieldTag; tagOut holds the descriptor it returned
ParseFieldTag ==
  /\ tagIn.kind # "none"
  /\ tagOut = <<>>
  /\ tagOut' = <<parseFieldTag(version, tagIn.name, tagIn.type, TagOf(tagIn))>>
  /\ UNCHANGED <<version, tagIn, src, fs, call, ref, run>>

NextTag == ParseFieldTag

SpecTag == InitTag /\ [][NextTag]_vars


Init ==
  /\ version \in Versions
  /\ src \in Sources
  /\ fs = EmptyFS
  /\ call = NoCall
  /\ ref = NoRef
  /\ run = NoRun
  /\ TagIdle

Next ==
  \/ \E c \in Commands, h \in Helps, o \in OutArgs : Main(c, h, o)
  \/ \E c \in Commands, o \in OutArgs : UserEditsStub(c, o)
  \/ UserEditsSource
  \/ UserBreaksSource

Spec == Init /\ [][Next]_vars

(***************************************************************************)
(* The generated front end at run time: the program cliTemplate writes,    *)
(* built and run with an argument list (SpecRun)                           *)
(***************************************************************************)
\* a value of a member of the command struct
GoValue(t, s, n, b, l, isNil) == [t |-> t, s |-> s, n |-> n, b |-> b, l |-> l, isNil |-> isNil]
StringValue(s) == GoValue("string", s, 0, FALSE, <<>>, FALSE)
IntValue(n)    == GoValue("int", <<>>, n, FALSE, <<>>, FALSE)
BoolValue(b)   == GoValue("bool", <<>>, 0, b, <<>>, FALSE)
SliceValue(l)  == GoValue("[]string", <<>>, 0, FALSE, l, FALSE)
NilValue(t)    == GoValue(t, <<>>, 0, FALSE, <<>>, TRUE)

\* the zero value of a member type
zeroValue(type) ==
  CASE type = "string" -> StringValue(<<>>)
    [] type = "int"    -> IntValue(0)
    [] type = "bool"   -> BoolValue(FALSE)
    [] OTHER           -> NilValue(type)

Digits == <<"0", "1", "2", "3", "4", "5", "6", "7", "8", "9">>
IsDigit(c) == \E i \in 1..10 : Digits[i] = c
DigitVal(c) == (CHOOSE i \in 1..10 : Digits[i] = c) - 1

\* a decimal integer literal: digits, no leading zero unless it is "0"
IsDecimal(s) ==
  /\ s # <<>>
  /\ \A i \in 1..Len(s) : IsDigit(s[i])
  /\ (Len(s) > 1 => s[1] # "0")

RECURSIVE Atoi(_)
Atoi(s) == IF s = <<>> THEN 0 ELSE 10 * Atoi(SubSeq(s, 1, Len(s) - 1)) + DigitVal(s[Len(s)])

s_true == <<"t", "r", "u", "e">>

\* strings.Join with a separator of any length
RECURSIVE JoinSep(_, _)
JoinSep(parts, sep) ==
  IF parts = <<>> THEN <<>>
  ELSE IF Len(parts) = 1 THEN parts[1]
  ELSE parts[1] \o sep \o JoinSep(Tail(parts), sep)

\* the types the members of the command struct can be declared with
NilableTypes == {"[]string", "*int", "interface{}"}
KnownTypes   == {"string", "int", "bool"} \cup NilableTypes

\* the default argument of a registration call is an expression of the
\* flag's type
literalOk(reg) ==
  CASE reg.fn = "StringVarP" ->
         \A i \in 2..(Len(reg.def) - 1) : reg.def[i] \notin {DQ, BS, NL}
    [] reg.fn = "IntVarP"  -> IsDecimal(reg.def)
    [] reg.fn = "BoolVarP" -> reg.def \in {s_true, s_false}
    [] OTHER               -> reg.def = s_nil

\* the Go compiler accepts the program: the "strings" import is used (only
\* the options block uses it), `cmd.X != ""` is a comparison of strings,
\* `cmd.X == <zero literal>` is a comparison within one type, the default
\* arguments are literals of the flag's type and the members are declared
\* once with a type that exists
Compiles(prog) ==
  /\ prog.options # <<>>
  /\ \A k \in 1..Len(prog.options) : prog.options[k].Type = "string"
  /\ \A k \in 1..Len(prog.required) :
       prog.required[k].Type \in {"string", "int", "bool"} \cup NilableTypes
  /\ \A k \in 1..Len(prog.flags) : literalOk(prog.flags[k])
  /\ \A i \in 1..Len(prog.members) : prog.members[i].Type \in KnownTypes
  /\ \A i, j \in 1..Len(prog.members) :
       i # j => prog.members[i].Name # prog.members[j].Name

\* pflag accepts the registrations: no flag name and no shorthand twice
Registers(prog) ==
  \A i, j \in 1..Len(prog.flags) :
     i # j => /\ prog.flags[i].CLIName # prog.flags[j].CLIName
              /\ (prog.flags[i].ShortFlag # <<>> =>
                    prog.flags[i].ShortFlag # prog.flags[j].ShortFlag)

\* the registration calls of a member (none for a type with no branch)
flagsOf(prog, name) == SelectSeq(prog.flags, LAMBDA reg : reg.Name = name)

\* the value of the default argument of a registration call
defaultOf(reg) ==
  CASE reg.fn = "StringVarP" -> StringValue(SubSeq(reg.def, 2, Len(reg.def) - 1))
    [] reg.fn = "IntVarP"    -> IntValue(Atoi(reg.def))
    [] reg.fn = "BoolVarP"   -> BoolValue(reg.def = s_true)
    [] OTHER                 -> NilValue("[]string")

\* pflag's Set of the flag on --name=text
setFlag(reg, text) ==
  CASE reg.fn = "StringVarP" -> StringValue(text)
    [] reg.fn = "IntVarP"    -> IntValue(Atoi(text))
    [] reg.fn = "BoolVarP"   -> BoolValue(text = s_true)
    [] OTHER                 -> SliceValue(Split(text, ","))

\* the texts a flag is given on the command line
ArgTexts(fn) ==
  CASE fn = "StringVarP" -> { <<>>, <<"d", "e", "v">>, <<"q", "a">> }
    [] fn = "IntVarP"    -> { <<"0">>, <<"7">> }
    [] fn = "BoolVarP"   -> { s_true, s_false }
    [] OTHER             -> { <<"x">> }

\* args[i] is <<>> when the flag of member i is not on the command line and
\* <<text>> when it is
ArgsFor(prog) ==
  { args \in [1..Len(prog.members) ->
                {<<>>} \cup { <<t>> : t \in UNION { ArgTexts(fn) :
                     fn \in {"StringVarP", "IntVarP", "BoolVarP", "StringSliceVarP"} } }] :
      \A i \in 1..Len(prog.members) :
         LET regs == flagsOf(prog, prog.members[i].Name)
         IN  args[i] # <<>> => (regs # <<>> /\ args[i][1] \in ArgTexts(regs[1].fn)) }

\* cmd after pflag.Parse(): the member values in declaration order
parsedValues(prog, args) ==
  [i \in 1..Len(prog.members) |->
     LET regs == flagsOf(prog, prog.members[i].Name)
     IN  IF regs = <<>> THEN zeroValue(prog.members[i].Type)
         ELSE IF args[i] # <<>> THEN setFlag(regs[1], args[i][1])
         ELSE defaultOf(regs[1])]

memberIndex(prog, name) == CHOOSE i \in 1..Len(prog.members) : prog.members[i].Name = name

\* cmd.X == <zero literal>
requiredFails(block, val) ==
  CASE block.zero = <<DQ, DQ>> -> val.s = <<>>
    [] block.zero = s_zero     -> val.n = 0
    [] block.zero = s_false    -> val.b = FALSE
    [] OTHER                   -> val.isNil

\* the options check with no test for the empty string
optionsFails_unguarded(block, val) ==
  \A j \in 1..Len(block.validOptions) : block.validOptions[j] # val.s

\* cmd.X != "" and no element of validOptions equals cmd.X
optionsFails(block, val) ==
  /\ val.s # <<>>
  /\ \A j \in 1..Len(block.validOptions) : block.validOptions[j] # val.s

\* main of the generated program: the help path, then New<Command>Command
\* (flags, Parse, the required blocks in order, the options blocks in
\* order, each ending the process on failure), then Execute
frontEnd(prog, helpFirst, args) ==
  LET values  == parsedValues(prog, args)
      valueOf(name) == values[memberIndex(prog, name)]
      reqFail == { k \in 1..Len(prog.required) :
                     requiredFails(prog.required[k], valueOf(prog.required[k].Name)) }
      optFail == { k \in 1..Len(prog.options) :
                     optionsFails(prog.options[k], valueOf(prog.options[k].Name)) }
  IN  IF helpFirst
      THEN [NoRun EXCEPT !.ran = TRUE, !.help = TRUE, !.usage = TRUE]
      ELSE IF reqFail # {}
      THEN [NoRun EXCEPT !.ran = TRUE, !.parsed = TRUE, !.args = args, !.values = values,
                         !.errKind = "required",
                         !.errFlag = prog.required[Min(reqFail)].CLIName,
                         !.usage = TRUE, !.exit = 1]
      ELSE IF optFail # {}
      THEN [NoRun EXCEPT !.ran = TRUE, !.parsed = TRUE, !.args = args, !.values = values,
                         !.errKind = "options",
                         !.errFlag = prog.options[Min(optFail)].CLIName,
                         !.errAllowed = JoinSep(prog.options[Min(optFail)].validOptions,
                                                <<",", SP>>),
                         !.usage = TRUE, !.exit = 1]
      ELSE [NoRun EXCEPT !.ran = TRUE, !.parsed = TRUE, !.args = args, !.values = values,
                         !.executed = TRUE]

\* the member types and directives of the structs the front end is built from
TypeExprs ==
  { Ident("string"), Ident("int"), Ident("bool"),
    [kind |-> "Array", elt |-> Ident("string")], [kind |-> "Star", x |-> Ident("int")] }

\* the default directives tried with a type; <<>> for none
DefaultsFor(type) ==
  CASE type = Ident("string") -> { <<>>, <<"d", "e", "v">>, <<"q", "a">> }
    [] type = Ident("int")    -> { <<>>, <<"0">>, <<"7">> }
    [] type = Ident("bool")   -> { <<>>, s_true }
    [] type.kind = "Array"    -> { <<>>, <<"x">> }
    [] OTHER                  -> { <<>> }

s_optionsProdDev == <<"o", "p", "t", "i", "o", "n", "s", ":", "p", "r", "o", "d", "|", "d", "e", "v">>

FieldSpecs ==
  UNION { { [type |-> t, required |-> r, options |-> o, default |-> d] :
              r \in BOOLEAN, o \in BOOLEAN, d \in DefaultsFor(t) } : t \in TypeExprs }

\* X <type> `cli:"<name>[,required][,options:prod|dev][,default:<text>]"`
RunField(name, cliName, fspec) ==
  LET toks == <<cliName>>
                \o (IF fspec.required THEN <<s_required>> ELSE <<>>)
                \o (IF fspec.options THEN <<s_optionsProdDev>> ELSE <<>>)
                \o (IF fspec.default # <<>> THEN <<s_default \o <<":">> \o fspec.default>> ELSE <<>>)
  IN  Field(<<name>>, fspec.type, <<BT>> \o BuildTag("cli", FALSE, toks) \o <<BT>>)

\* type RunArgs struct { Env <...>; Mode <...> }
RunSources ==
  { [ok |-> TRUE,
     decls |-> <<TypeDecl(<<[Name |-> <<"R", "u", "n", "A", "r", "g", "s">>,
                             Type |-> Struct(<<RunField(<<"E", "n", "v">>, <<"e", "n", "v">>, a),
                                               RunField(<<"M", "o", "d", "e">>, <<"m", "o", "d", "e">>, b)>>)]>>)>>] :
      a \in FieldSpecs, b \in FieldSpecs }

InitRun ==
  /\ version = 0
  /\ src \in RunSources
  /\ fs = EmptyFS
  /\ call = NoCall
  /\ ref = NoRef
  /\ run = NoRun
  /\ TagIdle

\* cligen run "<help>" [output]
GenerateFrontEnd ==
  /\ call.op = "none"
  /\ \E h \in Helps, o \in OutArgs : Main(<<"r", "u", "n">>, h, o)

\* the program cligen wrote
Program == nodeAt(fs, call.out).content[1].text

\* go run <output> [--help] [--<flag>=<text> ...]
RunFrontEnd ==
  /\ call.op = "main" /\ call.err = ""
  /\ ~run.ran
  /\ Compiles(Program)
  /\ Registers(Program)
  /\ \E helpFirst \in BOOLEAN, args \in ArgsFor(Program) :
        /\ helpFirst => \A i \in DOMAIN args : args[i] = <<>>
        /\ run' = frontEnd(Program, helpFirst, args)
  /\ UNCHANGED <<version, tagIn, tagOut, src, fs, call, ref>>

NextRun == GenerateFrontEnd \/ RunFrontEnd

SpecRun == InitRun /\ [][NextRun]_vars

(***************************************************************************)
(* Properties of parseFieldTag (SpecTag)                                   *)
(***************************************************************************)
\* the call has returned
TagDone == tagOut # <<>>

\* the value of the designated key cli, as extractTag yields it
TagValue == extractTag(version, TagOf(tagIn), s_cli)

\* its directive list: the comma-separated tokens, token 0 first (index 1 here);
\* empty when the annotation gives no value
TagParts == IF TagValue = <<>> THEN <<>> ELSE Split(TagValue, ",")

AllSpace(s) == \A i \in 1..Len(s) : IsSpace(s[i])

\* core is raw without the whitespace around it
IsCoreOf(raw, core) ==
  \E a \in 0..Len(raw) : \E b \in a..Len(raw) :
     /\ core = SubSeq(raw, a + 1, b)
     /\ AllSpace(SubSeq(raw, 1, a))
     /\ AllSpace(SubSeq(raw, b + 1, Len(raw)))
     /\ (core # <<>> => ~IsSpace(core[1]) /\ ~IsSpace(core[Len(core)]))

\* the whitespace before and after the core of raw
LeadOf(raw) ==
  CHOOSE a \in 0..Len(raw) :
     AllSpace(SubSeq(raw, 1, a)) /\ (a < Len(raw) => ~IsSpace(raw[a + 1]))

TrailOf(raw) ==
  CHOOSE b \in 0..Len(raw) :
     AllSpace(SubSeq(raw, b + 1, Len(raw))) /\ (b > 0 => ~IsSpace(raw[b]))

CoreOf(raw) == SubSeq(raw, LeadOf(raw) + 1, TrailOf(raw))

\* positions 1 and later (indices 2..) holding a default:X token
DefaultAt == {i \in 2..Len(TagParts) : HasPrefix(CoreOf(TagParts[i]), s_default)}

\* C6: when the directive list holds a token default:X at position 1 or later,
\* the descriptor's DefaultValue is the X of one such token exactly as written:
\* the token without the whitespace around it is "default:" followed by
\* DefaultValue, character for character.
C6_DefaultVerbatim ==
  (TagDone /\ DefaultAt # {}) =>
     \E i \in DefaultAt : IsCoreOf(TagParts[i], s_default \o tagOut[1].DefaultValue)

\* two default: tokens are present and the value kept has a leading space
C6_Witness ==
  /\ TagDone
  /\ Cardinality(DefaultAt) = 2
  /\ tagOut[1].DefaultValue = <<SP, "x">>

\* positions 1 and later holding a token of length one once trimmed
\* (length as Go's len counts it: bytes)
ShortAt == {i \in 2..Len(TagParts) : GoLen(CoreOf(TagParts[i])) = 1}

NoMatch(core) ==
  /\ GoLen(core) # 1
  /\ ~HasPrefix(core, s_default)
  /\ core # s_required
  /\ ~HasPrefix(core, s_options)
  /\ ~HasPrefix(core, s_usage)

RemoveAt(q, i) == SubSeq(q, 1, i - 1) \o SubSeq(q, i + 1, Len(q))

\* the written tokens are the tokens of the directive list, position by position
TokensRead == Len(TagParts) = Len(tagIn.toks)

IgnoredAt == {i \in 2..Len(TagParts) : TokensRead /\ NoMatch(CoreOf(TagParts[i]))}

FieldInfoKeys ==
  {"Name", "Type", "CLIName", "ShortFlag", "DefaultValue", "Required", "Options",
   "Help", "Usage"}

NoDirectives ==
  \/ tagIn.kind \in {"empty", "nocli"}
  \/ tagIn.kind = "cli" /\ Join(tagIn.toks, ",") = <<>>

\* C9: such a field gets the default descriptor whatever its type, and the
\* flag name differs from the lowercased field name only when token 0 of the
\* directive list is non-empty.
C9_DefaultDescriptor ==
  TagDone =>
     /\ NoDirectives =>
          tagOut[1] = [Name |-> tagIn.name, Type |-> tagIn.type,
                       CLIName |-> [i \in 1..Len(tagIn.name) |-> LowerChar(tagIn.name[i])],
                       ShortFlag |-> <<>>, DefaultValue |-> <<>>, Required |-> FALSE,
                       Options |-> <<>>, Help |-> <<>>, Usage |-> <<>>]
     /\ tagOut[1].CLIName # ToLower(tagIn.name) =>
          /\ TagParts # <<>>
          /\ TagParts[1] # <<>>
          /\ tagOut[1].CLIName = TagParts[1]

\* a list-of-strings field whose annotation has another key and cli:""
C9_Witness ==
  /\ TagDone
  /\ tagIn.kind = "cli" /\ tagIn.other /\ tagIn.toks = <<>>
  /\ tagIn.type = "[]string"
  /\ tagOut[1].CLIName = <<"e", "n", "v">>

(***************************************************************************)
(* Properties of the generator runs (Spec)                                 *)
(***************************************************************************)
\* the type specs of a file in source order, those in function bodies included
RECURSIVE specsInOrder(_)
specsInOrder(decls) ==
  IF decls = <<>> THEN <<>>
  ELSE Head(decls).specs \o specsInOrder(Head(decls).body) \o specsInOrder(Tail(decls))

QualifyingIn(file, command) ==
  SelectSeq(specsInOrder(file.decls),
            LAMBDA sp : /\ sp.Type.kind = "Struct"
                        /\ Contains(ToLower(sp.Name), ToLower(command))
                        /\ Contains(ToLower(sp.Name), s_args))

\* the run found a declaration
Located == call.op = "main" /\ call.err \notin {"parse", "notfound"}

\* the top-level type declarations of the file that hold a qualifying struct
SeparateQualifying(file, command) ==
  { i \in 1..Len(file.decls) :
      /\ file.decls[i].tok = "type"
      /\ firstQualifying(file.decls[i].specs, command) # <<>> }

\* C1: when two or more separate type declarations of the file hold a
\* qualifying struct, the declaration Generate works with is the first
\* qualifying one in source order; a later one is never used.
C1_FirstDeclaration ==
  (Located /\ Cardinality(SeparateQualifying(src, call.command)) >= 2) =>
     call.structName = QualifyingIn(src, call.command)[1].Name

\* the struct type Generate located
LocatedStruct ==
  LET all == specsInOrder(src.decls)
  IN  all[CHOOSE i \in 1..Len(all) : all[i].Name = call.structName].Type

RECURSIVE declaredNames(_)
declaredNames(fields) ==
  IF fields = <<>> THEN <<>> ELSE Head(fields).Names \o declaredNames(Tail(fields))

\* C10: the descriptors are the named fields of the located declaration, one
\* each and in declaration order, also when one line names several fields.
C10_OnePerNamedField ==
  Located =>
     [i \in 1..Len(call.fields) |-> call.fields[i].Name]
       = declaredNames(LocatedStruct.fields)

StubPaths == { implPath(outputFileOf(c, o), c) : c \in Commands, o \in OutArgs }

\* C2: a generator run never changes an implementation stub that exists, and
\* the run that locates its struct and finds its own stub present ends
\* without error.
C2_StubKept ==
  [][ call'.op = "main" =>
        /\ \A q \in StubPaths : q \in DOMAIN fs => (q \in DOMAIN fs' /\ fs'[q] = fs[q])
        /\ (/\ implPath(call'.out, call'.command) \in DOMAIN fs
            /\ call'.err \notin {"parse", "notfound"}) => call'.err = "" ]_vars

\* a run has completed with descriptors other than those the stub was
\* generated from, and the stub is the one generated before
C2_Witness ==
  /\ call.op = "main" /\ call.err = ""
  /\ \E old \in {nodeAt(fs, implPath(call.out, call.command)).content} :
        /\ Len(old) = 1 /\ old[1].kind = "impl"
        /\ old[1].text.Fields # call.fields

\* the run repeats the inputs of the first front end written
SameInputs ==
  /\ call.op = "main" /\ wrote(call.err) /\ ref.set
  /\ <<call.command, call.help, call.structName, call.fields>>
       = <<ref.command, ref.help, ref.structName, ref.fields>>

\* C3: a run with the same command, help, struct name and descriptors writes
\* the same front end (and the same go.mod), whatever ran before and whatever
\* the output file held.
C3_Deterministic ==
  SameInputs =>
     /\ nodeAt(fs, call.out).content = ref.content
     /\ (version = 1 /\ call.err # "gomod") =>
           nodeAt(fs, goModPath(call.out)).content = ref.gomod

\* the inputs are repeated after a run with other inputs wrote the same file
C3_Witness == SameInputs /\ call.out = ref.out /\ ref.over

(***************************************************************************)
(* Properties of the generated front end (SpecRun)                         *)
(***************************************************************************)
\* the front end has parsed its flags and ended
RunParsed == run.ran /\ run.parsed

\* the descriptors of the fields the front end was generated from
Descriptors == call.fields

\* the value the member of descriptor i holds after flag parsing
ValueOf(i) == run.values[i]

\* the run ended with the allowed-values error of descriptor f
OptionsError(f) ==
  /\ run.errKind = "options"
  /\ run.errFlag = f.CLIName
  /\ run.errAllowed = JoinSep(f.Options, <<",", SP>>)
  /\ run.usage /\ run.exit # 0 /\ ~run.executed

\* the run ended with the required error of descriptor f
RequiredError(f) ==
  /\ run.errKind = "required"
  /\ run.errFlag = f.CLIName
  /\ run.usage /\ run.exit # 0 /\ ~run.executed

IsMember(s, options) == \E j \in 1..Len(options) : options[j] = s

\* the fields with an allowed-values set whose value is not in the set
NotAllowed ==
  { i \in 1..Len(Descriptors) :
      Descriptors[i].Options # <<>> /\ ~IsMember(ValueOf(i).s, Descriptors[i].Options) }

\* the required fields that hold the zero value of their type
RequiredZero ==
  { i \in 1..Len(Descriptors) :
      Descriptors[i].Required /\ ValueOf(i) = zeroValue(Descriptors[i].Type) }

\* C4 as stated: every field with an allowed-values set whose parsed value
\* is not in the set, the value of a flag that was not supplied included,
\* ends the run with the error naming its flag and its allowed values, usage
\* printed, a non-zero exit and no command logic.
C4_EveryValueChecked ==
  RunParsed => \A i \in NotAllowed : OptionsError(Descriptors[i])

\* C4: a field with an allowed-values set whose parsed value is not empty
\* and not in the set ends the run with usage, exit status 1 and no command
\* logic; the error is that of the first failing check, the required checks
\* coming first, so it names the first such field and its allowed values in
\* declared order when no required check fails.  An empty value is not
\* checked against the set.
C4_NonEmptyValueChecked ==
  RunParsed =>
    LET bad == { i \in NotAllowed : ValueOf(i).s # <<>> }
    IN  /\ bad # {} =>
             /\ run.usage /\ run.exit = 1 /\ ~run.executed
             /\ RequiredZero = {} => OptionsError(Descriptors[Min(bad)])
        /\ bad = {} => run.errKind # "options"

\* the second field is rejected for its value while the first, whose flag
\* was not supplied, holds an empty value outside its set
C4_Witness ==
  /\ RunParsed
  /\ Len(Descriptors) = 2
  /\ OptionsError(Descriptors[2])
  /\ NotAllowed = {1, 2}
  /\ run.args[1] = <<>> /\ ValueOf(1).s = <<>>

\* the required blocks of the program are those of the required fields
RequiredBlocksExact ==
  (call.op = "main" /\ call.err = "") =>
     [k \in 1..Len(Program.required) |-> Program.required[k].Name]
       = LET req == SelectSeq(Descriptors, LAMBDA f : f.Required)
         IN  [k \in 1..Len(req) |-> req[k].Name]

Emitted == call.op = "main" /\ call.err = ""

\* the names of the fields whose resolved type has a registration strategy,
\* in declaration order
SupportedNames ==
  LET sup == SelectSeq(Descriptors, LAMBDA f : f.Type \in SupportedTypes)
  IN  [k \in 1..Len(sup) |-> sup[k].Name]

MemberNames == [k \in 1..Len(Program.members) |-> Program.members[k].Name]

FlagNames == [k \in 1..Len(Program.flags) |-> Program.flags[k].Name]

\* C11: the members of the generated record and the registration calls are
\* both exactly the fields of type string, int, bool or []string, once each
\* and in declaration order; a field of another type gives neither.
C11_SupportedOnly ==
  Emitted => (MemberNames = SupportedNames /\ FlagNames = SupportedNames)

(***************************************************************************)
(* Properties of failing generator runs (Spec)                             *)
(***************************************************************************)
\* C12: a run whose source file does not parse, or holds no qualifying
\* struct for the command, ends with that error, leaves every file and
\* directory as it was and makes main exit non-zero.
C12_FailureLeavesFiles ==
  [][ (call'.op = "main" /\ (~src.ok \/ QualifyingIn(src, call'.command) = <<>>)) =>
        /\ call'.err = (IF ~src.ok THEN "parse" ELSE "notfound")
        /\ fs' = fs
        /\ call'.exit # 0 ]_vars

\* a run failed on a source that no longer parses while earlier runs had
\* left files behind
C12_Witness ==
  /\ call.op = "main" /\ call.err = "parse"
  /\ \E q \in DOMAIN fs : fs[q].kind = "file"

(***************************************************************************)
(* Properties of the output path (Spec)                                    *)
(***************************************************************************)
\* C13: a run of the revision that makes the output directory, whose source
\* parses and whose struct is found, leaves the front end as a file at the
\* output path it was given or defaulted to, with the directories above
\* that path made and the path itself never made a directory, whether or
\* not the path ends in "/main.go".
C13_WrittenAtOutputPath ==
  (version = 1 /\ Located) =>
     /\ nodeAt(fs, call.out).kind = "file"
     /\ nodeAt(fs, call.out).content
          = <<cliChunk(version, [Command |-> call.command, Help |-> call.help],
                       call.structName, call.fields)>>
     /\ \A a \in Ancestors(call.out) : nodeAt(fs, a).kind = "dir"

====
